---- MODULE Spec2Model ----
(***************************************************************************)
(* A model of weather_analyzer.py: the WeatherAnalyzer class (constructor, *)
(* fetch_weather_forecast, _generate_sample_data,                          *)
(* analyze_temperature_trends, visualize_data) and main.                   *)
(*                                                                         *)
(* Time is counted in whole hours since an epoch.  A Python number is a    *)
(* record [ty, v]: an int holds its value, a float holds its value in      *)
(* units of 2^-FracBits and is always a member of a binary floating-point  *)
(* format with a Precision-bit significand, rounded to nearest, ties to    *)
(* even (IEEE-754 double is the same format with a 53-bit significand; the *)
(* narrower significand keeps the arithmetic inside TLC's integers).       *)
(***************************************************************************)
EXTENDS Integers, Sequences, FiniteSets, TLC

\* ------------------------------------------------------------------ bounds
\* Clock readings range over 0..MaxClock hours.
MaxClock == 1
\* Longest record sequence handed to the analyzer in SpecAnalyze.
MaxLen == 3
\* Integer temperatures handed to the analyzer range over -MaxAbsTemp..MaxAbsTemp.
MaxAbsTemp == 2
\* Significand width of the float format.
Precision == 12
\* A float is counted in units of 2^-FracBits.
FracBits == 6
\* Float temperatures handed to the analyzer: FloatLo..FloatLo+FloatSpan units.
FloatLo == 2730
FloatSpan == 4

\* ------------------------------------------------------- program constants
NumRecords == 40
BaseTemp == 20
StepHours == 3

Cities == {"London", "Paris"}
ApiKeyArgs == {"None", "", "k1"}
Paths == {"weather_analysis.png", "other.png"}
DefaultPath == "weather_analysis.png"

\* ---------------------------------------------------------- Python numbers
RECURSIVE Pow2(_)
Pow2(n) == IF n = 0 THEN 1 ELSE 2 * Pow2(n - 1)

Scale == Pow2(FracBits)

Abs(x) == IF x < 0 THEN -x ELSE x

\* n/d (n >= 0, d > 0) rounded to the nearest integer, ties to the even one.
RoundHalfEven(n, d) ==
    LET q == n \div d
        r == n % d
    IN  IF 2 * r < d THEN q
        ELSE IF 2 * r > d THEN q + 1
        ELSE IF q % 2 = 0 THEN q ELSE q + 1

\* The distance between neighbouring floats around n/d units (n >= 0, d > 0).
RECURSIVE Spacing(_, _, _)
Spacing(n, d, s) == IF n < d * s * Pow2(Precision) THEN s ELSE Spacing(n, d, 2 * s)

\* The float nearest to n/d units (d > 0), in units.
RoundToFloat(n, d) ==
    LET a == Abs(n)
        s == Spacing(a, d, 1)
        m == RoundHalfEven(a, d * s) * s
    IN  IF n < 0 THEN -m ELSE m

PyInt(n) == [ty |-> "int", v |-> n]
PyFloat(u) == [ty |-> "float", v |-> u]

\* The exact value of a number, in units.
Units(x) == IF x.ty = "int" THEN x.v * Scale ELSE x.v

\* float(x)
ToFloat(x) == IF x.ty = "int" THEN RoundToFloat(x.v * Scale, 1) ELSE x.v

\* Python compares an int with a float by their exact values.
PyLt(a, b) == Units(a) < Units(b)
PyLe(a, b) == Units(a) <= Units(b)
PyEq(a, b) == Units(a) = Units(b)

\* a + b: exact on ints, otherwise the float sum, rounded.
PyAdd(a, b) ==
    IF a.ty = "int" /\ b.ty = "int" THEN PyInt(a.v + b.v)
    ELSE PyFloat(RoundToFloat(ToFloat(a) + ToFloat(b), 1))

Returned(val) == [exc |-> "none", value |-> val]
Raised(name) == [exc |-> name, value |-> <<>>]

\* Mutant of PyTrueDiv: floor division (//) in place of true division (/).
PyFloorDiv(a, b) ==
    IF Units(b) = 0 THEN Raised("ZeroDivisionError")
    ELSE IF a.ty = "int" /\ b.ty = "int"
         THEN Returned(PyInt(a.v \div b.v))
         ELSE Returned(PyFloat(RoundToFloat((ToFloat(a) \div ToFloat(b)) * Scale, 1)))

\* a / b for b >= 0: the correctly rounded quotient, a float.
PyTrueDiv(a, b) ==
    IF Units(b) = 0 THEN Raised("ZeroDivisionError")
    ELSE IF a.ty = "int" /\ b.ty = "int"
         THEN Returned(PyFloat(RoundToFloat(a.v * Scale, b.v)))
         ELSE Returned(PyFloat(RoundToFloat(ToFloat(a) * Scale, ToFloat(b))))

\* sum(xs): a left fold of + starting from the int 0.  (In the folds below the
\* bound variable v holds the evaluated accumulator of the next iteration.)
RECURSIVE SumFrom(_, _, _)
SumFrom(xs, i, acc) ==
    IF i > Len(xs) THEN acc
    ELSE CHOOSE r \in {SumFrom(xs, i + 1, v) : v \in {PyAdd(acc, xs[i])}} : TRUE

\* Mutant of PySum: the fold starts at the second element.
PySumSkipFirst(xs) == SumFrom(xs, 2, PyInt(0))

PySum(xs) == SumFrom(xs, 1, PyInt(0))

\* min(xs): the first smallest element; ValueError on an empty sequence.
RECURSIVE MinFrom(_, _, _)
MinFrom(xs, i, best) ==
    IF i > Len(xs) THEN best
    ELSE CHOOSE r \in {MinFrom(xs, i + 1, v) :
                          v \in {IF PyLt(xs[i], best) THEN xs[i] ELSE best}} : TRUE

PyMin(xs) ==
    IF Len(xs) = 0 THEN Raised("ValueError") ELSE Returned(MinFrom(xs, 2, xs[1]))

\* max(xs): the first largest element; ValueError on an empty sequence.
RECURSIVE MaxFrom(_, _, _)
MaxFrom(xs, i, best) ==
    IF i > Len(xs) THEN best
    ELSE CHOOSE r \in {MaxFrom(xs, i + 1, v) :
                          v \in {IF PyLt(best, xs[i]) THEN xs[i] ELSE best}} : TRUE

PyMax(xs) ==
    IF Len(xs) = 0 THEN Raised("ValueError") ELSE Returned(MaxFrom(xs, 2, xs[1]))

\* format(x, ".1f"): x in tenths, rounded half to even on its exact value.
Format1f(x) ==
    LET u == Units(x)
        t == RoundHalfEven(Abs(u) * 10, Scale)
    IN  IF u < 0 THEN -t ELSE t

\* ------------------------------------------------------------- timestamps
\* datetime.isoformat(): the calendar day and the hour of the day.
isoformat(t) == [date |-> t \div 24, hour |-> t % 24]

\* pd.to_datetime / datetime.fromisoformat: back to hours since the epoch.
to_datetime(s) == s.date * 24 + s.hour

\* ------------------------------------------------------------------ state
VARIABLES
    now,         \* the wall clock, in hours (what datetime.now() reads)
    api_key,     \* self.api_key
    data,        \* self.data
    params,      \* the params dict built by the latest fetch_weather_forecast call
    fetched,     \* the value the latest fetch_weather_forecast call returned
    fetchTime,   \* the clock reading of that call
    prev,        \* the value the fetch_weather_forecast call before it returned
    prevTime,    \* the clock reading of that earlier call
    prevParams,  \* the params dict of that earlier call
    fetches,     \* fetch_weather_forecast calls on this analyzer: 0, 1, or 2 for more
    result,      \* the outcome of the latest analyze_temperature_trends call
    fresh,       \* no fetch and no construction since that call
    files,       \* the file system: what each path holds
    last,        \* the latest method call and the exception it raised
    pc,          \* main's position ("session": methods are called directly)
    out,         \* standard output, a sequence of lines
    log          \* the stages main has started, each with its exception

vars == <<now, api_key, data, params, fetched, fetchTime, prev, prevTime, prevParams,
          fetches, result, fresh, files, last, pc, out, log>>

NoParams == [q |-> "None", appid |-> "None", units |-> "None"]
NoFile == [exists |-> FALSE, line |-> <<>>, scatter |-> <<>>]
StaleFile == [exists |-> TRUE, line |-> <<>>, scatter |-> <<>>]

\* ------------------------------------------------------------- operations
\* WeatherAnalyzer.__init__: api_key or "YOUR_API_KEY".
init_api_key(arg) == IF arg \in {"None", ""} THEN "YOUR_API_KEY" ELSE arg

\* Mutant of generate_sample_data: timedelta(hours=i) in place of hours=i*3.
generate_hourly(clock) ==
    [k \in 1..NumRecords |->
        LET i == k - 1
            time == clock + i
            temp_variation == (i % 8) - 4
        IN  [datetime |-> isoformat(time),
             temperature |-> PyInt(BaseTemp + temp_variation + (i % 3)),
             humidity |-> PyInt(60 + (i % 20)),
             wind_speed |-> PyInt(5 + (i % 10))]]

\* Mutant of generate_sample_data: the 1-based position in place of the index i
\* in the measurement formulas.
generate_off_by_one(clock) ==
    [k \in 1..NumRecords |->
        LET i == k - 1
            time == clock + i * StepHours
            temp_variation == (k % 8) - 4
        IN  [datetime |-> isoformat(time),
             temperature |-> PyInt(BaseTemp + temp_variation + (k % 3)),
             humidity |-> PyInt(60 + (k % 20)),
             wind_speed |-> PyInt(5 + (k % 10))]]

\* WeatherAnalyzer._generate_sample_data, called at clock reading `clock`.
generate_sample_data(clock) ==
    [k \in 1..NumRecords |->
        LET i == k - 1
            time == clock + i * StepHours
            temp_variation == (i % 8) - 4
        IN  [datetime |-> isoformat(time),
             temperature |-> PyInt(BaseTemp + temp_variation + (i % 3)),
             humidity |-> PyInt(60 + (i % 20)),
             wind_speed |-> PyInt(5 + (i % 10))]]

\* Mutant of fetch_weather_forecast: the new records are appended to self.data.
fetch_appending(self_data, self_api_key, city, clock) ==
    self_data \o generate_sample_data(clock)

\* Mutant of fetch_weather_forecast: the synthetic temperatures depend on the city.
fetch_by_city(self_data, self_api_key, city, clock) ==
    IF city = "London" THEN generate_sample_data(clock)
    ELSE [k \in 1..NumRecords |->
            [generate_sample_data(clock)[k] EXCEPT !.temperature = PyInt(@.v + 1)]]

\* WeatherAnalyzer.fetch_weather_forecast: the new self.data, which is also the
\* value returned.  The analyzer's data and key and the city are not read.
fetch_weather_forecast(self_data, self_api_key, city, clock) ==
    generate_sample_data(clock)

\* Mutant of analyze_temperature_trends: the mean is computed before min and max.
analyze_mean_first(d) ==
    LET temps == [k \in 1..Len(d) |-> d[k].temperature]
        mn == PyMin(temps)
        mx == PyMax(temps)
        avg == PyTrueDiv(PySum(temps), PyInt(Len(temps)))
    IN  IF avg.exc # "none" THEN Raised(avg.exc)
        ELSE IF mn.exc # "none" THEN Raised(mn.exc)
        ELSE IF mx.exc # "none" THEN Raised(mx.exc)
        ELSE Returned(<<mn.value, mx.value, avg.value>>)

\* WeatherAnalyzer.analyze_temperature_trends on self.data = d.  The tuple's
\* elements are evaluated left to right; the first exception ends the call.
analyze_temperature_trends(d) ==
    LET temps == [k \in 1..Len(d) |-> d[k].temperature]
        mn == PyMin(temps)
        mx == PyMax(temps)
        avg == PyTrueDiv(PySum(temps), PyInt(Len(temps)))
    IN  IF mn.exc # "none" THEN Raised(mn.exc)
        ELSE IF mx.exc # "none" THEN Raised(mx.exc)
        ELSE IF avg.exc # "none" THEN Raised(avg.exc)
        ELSE Returned(<<mn.value, mx.value, avg.value>>)

\* Mutant of data_after_visualize: the timestamps of self.data itself are cut to
\* the day.
data_after_inplace_edit(d) ==
    [k \in 1..Len(d) |-> [d[k] EXCEPT !.datetime = [date |-> @.date, hour |-> 0]]]

\* self.data after visualize_data: pd.DataFrame(self.data) copies the records and
\* the datetime column is converted in the copy.
data_after_visualize(d) == d

\* WeatherAnalyzer.visualize_data on self.data = d: the image written, or the
\* exception.  An empty DataFrame has no "datetime" column; io_ok is whether
\* plt.savefig can write the file.
visualize_data(d, io_ok) ==
    IF Len(d) = 0 THEN Raised("KeyError")
    ELSE IF ~io_ok THEN Raised("OSError")
    ELSE Returned([exists |-> TRUE,
                   line |-> [k \in 1..Len(d) |->
                               <<to_datetime(d[k].datetime), d[k].temperature>>],
                   scatter |-> [k \in 1..Len(d) |->
                               <<d[k].humidity, d[k].wind_speed>>]])

\* Mutant of AfterCall: the exception is swallowed and the next line runs.
AfterCallSwallowed(exc, next) == next

\* main catches nothing: an exception ends the run, otherwise the next line runs.
AfterCall(exc, next) == IF exc = "none" THEN next ELSE "failed"

\* ----------------------------------------------------- the calls' effects
ConstructCall(arg) ==
    /\ api_key' = init_api_key(arg)
    /\ data' = <<>>
    /\ fetches' = 0
    /\ fresh' = FALSE
    /\ last' = [op |-> "new", exc |-> "none"]
    /\ UNCHANGED <<params, fetched, fetchTime, prev, prevTime, prevParams, result>>

FetchCall(city) ==
    /\ params' = [q |-> city, appid |-> api_key, units |-> "metric"]
    /\ data' = fetch_weather_forecast(data, api_key, city, now)
    /\ fetched' = data'
    /\ fetchTime' = now
    /\ prev' = fetched
    /\ prevTime' = fetchTime
    /\ prevParams' = params
    /\ fetches' = IF fetches = 0 THEN 1 ELSE 2
    /\ fresh' = FALSE
    /\ last' = [op |-> "fetch", exc |-> "none"]
    /\ UNCHANGED <<api_key, result>>

AnalyzeCall ==
    /\ result' = analyze_temperature_trends(data)
    /\ fresh' = TRUE
    /\ last' = [op |-> "analyze", exc |-> result'.exc]
    /\ UNCHANGED <<api_key, data, params, fetched, fetchTime, prev, prevTime,
                   prevParams, fetches>>

VisualizeCall(path, io_ok) ==
    LET o == visualize_data(data, io_ok)
    IN  /\ files' = IF o.exc = "none" THEN [files EXCEPT ![path] = o.value] ELSE files
        /\ data' = data_after_visualize(data)
        /\ last' = [op |-> "visualize", exc |-> o.exc]
        /\ UNCHANGED <<api_key, params, fetched, fetchTime, prev, prevTime,
                       prevParams, fetches, result, fresh>>

\* ------------------------------------------- a session of direct method calls
Init ==
    /\ now = 0
    /\ api_key \in {init_api_key(a) : a \in ApiKeyArgs}
    /\ data = <<>>
    /\ params = NoParams
    /\ fetched = <<>>
    /\ fetchTime = 0
    /\ prev = <<>>
    /\ prevTime = 0
    /\ prevParams = NoParams
    /\ fetches = 0
    /\ result = [exc |-> "not called", value |-> <<>>]
    /\ fresh = FALSE
    /\ files = [p \in Paths |-> NoFile]
    /\ last = [op |-> "new", exc |-> "none"]
    /\ pc = "session"
    /\ out = <<>>
    /\ log = <<>>

Tick ==
    /\ now < MaxClock
    /\ now' = now + 1
    /\ UNCHANGED <<api_key, data, params, fetched, fetchTime, prev, prevTime,
                   prevParams, fetches, result, fresh, files, last, pc, out, log>>

Construct(arg) ==
    /\ pc = "session"
    /\ ConstructCall(arg)
    /\ UNCHANGED <<now, files, pc, out, log>>

Fetch(city) ==
    /\ pc = "session"
    /\ FetchCall(city)
    /\ UNCHANGED <<now, files, pc, out, log>>

Analyze ==
    /\ pc = "session"
    /\ AnalyzeCall
    /\ UNCHANGED <<now, files, pc, out, log>>

Visualize(path, io_ok) ==
    /\ pc = "session"
    /\ VisualizeCall(path, io_ok)
    /\ UNCHANGED <<now, pc, out, log>>

Next ==
    \/ Tick
    \/ \E arg \in ApiKeyArgs : Construct(arg)
    \/ \E city \in Cities : Fetch(city)
    \/ Analyze
    \/ \E path \in Paths, io_ok \in BOOLEAN : Visualize(path, io_ok)

Spec == Init /\ [][Next]_vars

\* ------------------------------------------------------------------- main
\* The state when main starts: nothing fetched or printed yet.  The clock shows any
\* reading and each path may hold an older file.
InitMain ==
    /\ now \in 0..MaxClock
    /\ api_key = "unset"
    /\ data = <<>>
    /\ params = NoParams
    /\ fetched = <<>>
    /\ fetchTime = 0
    /\ prev = <<>>
    /\ prevTime = 0
    /\ prevParams = NoParams
    /\ fetches = 0
    /\ result = [exc |-> "not called", value |-> <<>>]
    /\ fresh = FALSE
    /\ files \in [Paths -> {NoFile, StaleFile}]
    /\ last = [op |-> "none", exc |-> "none"]
    /\ pc = "line80"
    /\ out = <<>>
    /\ log = <<>>

Line(text) == [text |-> text, tenths |-> <<>>]
TempLine(text, x) == [text |-> text, tenths |-> <<Format1f(x)>>]
Stage(name, exc) == [stage |-> name, exc |-> exc]

\* analyzer = WeatherAnalyzer()
MainConstruct ==
    /\ pc = "line80"
    /\ ConstructCall("None")
    /\ pc' = AfterCall(last'.exc, "line83")
    /\ UNCHANGED <<now, files, out, log>>

\* print("Fetching weather data...")
MainAnnounceFetch ==
    /\ pc = "line83"
    /\ out' = Append(out, Line("Fetching weather data..."))
    /\ pc' = "line84"
    /\ UNCHANGED <<now, api_key, data, params, fetched, fetchTime, prev, prevTime,
                   prevParams, fetches, result, fresh, files, last, log>>

\* analyzer.fetch_weather_forecast("London")
MainFetch ==
    /\ pc = "line84"
    /\ FetchCall("London")
    /\ log' = Append(log, Stage("fetch", last'.exc))
    /\ pc' = AfterCall(last'.exc, "line87")
    /\ UNCHANGED <<now, files, out>>

\* min_temp, max_temp, avg_temp = analyzer.analyze_temperature_trends()
MainAnalyze ==
    /\ pc = "line87"
    /\ AnalyzeCall
    /\ log' = Append(log, Stage("analyze", last'.exc))
    /\ pc' = AfterCall(last'.exc, "line88")
    /\ UNCHANGED <<now, files, out>>

\* print(f"\nTemperature Analysis:")
MainReportHeader ==
    /\ pc = "line88"
    /\ out' = Append(out, Line("Temperature Analysis:"))
    /\ pc' = "line89"
    /\ UNCHANGED <<now, api_key, data, params, fetched, fetchTime, prev, prevTime,
                   prevParams, fetches, result, fresh, files, last, log>>

\* print(f"Minimum Temperature: {min_temp:.1f}°C")
MainReportMin ==
    /\ pc = "line89"
    /\ out' = Append(out, TempLine("Minimum Temperature", result.value[1]))
    /\ pc' = "line90"
    /\ UNCHANGED <<now, api_key, data, params, fetched, fetchTime, prev, prevTime,
                   prevParams, fetches, result, fresh, files, last, log>>

\* print(f"Maximum Temperature: {max_temp:.1f}°C")
MainReportMax ==
    /\ pc = "line90"
    /\ out' = Append(out, TempLine("Maximum Temperature", result.value[2]))
    /\ pc' = "line91"
    /\ UNCHANGED <<now, api_key, data, params, fetched, fetchTime, prev, prevTime,
                   prevParams, fetches, result, fresh, files, last, log>>

\* print(f"Average Temperature: {avg_temp:.1f}°C")
MainReportAvg ==
    /\ pc = "line91"
    /\ out' = Append(out, TempLine("Average Temperature", result.value[3]))
    /\ log' = Append(log, Stage("report", "none"))
    /\ pc' = "line94"
    /\ UNCHANGED <<now, api_key, data, params, fetched, fetchTime, prev, prevTime,
                   prevParams, fetches, result, fresh, files, last>>

\* print("\nGenerating visualization...")
MainAnnounceRender ==
    /\ pc = "line94"
    /\ out' = Append(out, Line("Generating visualization..."))
    /\ pc' = "line95"
    /\ UNCHANGED <<now, api_key, data, params, fetched, fetchTime, prev, prevTime,
                   prevParams, fetches, result, fresh, files, last, log>>

\* analyzer.visualize_data()
MainRender(io_ok) ==
    /\ pc = "line95"
    /\ VisualizeCall(DefaultPath, io_ok)
    /\ log' = Append(log, Stage("render", last'.exc))
    /\ pc' = AfterCall(last'.exc, "line96")
    /\ UNCHANGED <<now, out>>

\* print("Visualization saved as 'weather_analysis.png'")
MainConfirm ==
    /\ pc = "line96"
    /\ out' = Append(out, Line("Visualization saved as 'weather_analysis.png'"))
    /\ log' = Append(log, Stage("confirm", "none"))
    /\ pc' = "done"
    /\ UNCHANGED <<now, api_key, data, params, fetched, fetchTime, prev, prevTime,
                   prevParams, fetches, result, fresh, files, last>>

NextMain ==
    \/ Tick
    \/ MainConstruct
    \/ MainAnnounceFetch
    \/ MainFetch
    \/ MainAnalyze
    \/ MainReportHeader
    \/ MainReportMin
    \/ MainReportMax
    \/ MainReportAvg
    \/ MainAnnounceRender
    \/ \E io_ok \in BOOLEAN : MainRender(io_ok)
    \/ MainConfirm

SpecMain == InitMain /\ [][NextMain]_vars

\* --------------------------------- the analyzer on any record sequence it holds
IntTemps == {PyInt(n) : n \in -MaxAbsTemp..MaxAbsTemp}
FloatTemps == {PyFloat(RoundToFloat(u, 1)) : u \in FloatLo..(FloatLo + FloatSpan)}

RecordOf(t, k) ==
    [datetime |-> isoformat((k - 1) * StepHours), temperature |-> t,
     humidity |-> PyInt(60), wind_speed |-> PyInt(5)]

RecordSeqs(temps) ==
    UNION {{[k \in 1..n |-> RecordOf(ts[k], k)] : ts \in [1..n -> temps]} : n \in 0..MaxLen}

InitAnalyze ==
    /\ now = 0
    /\ api_key = "YOUR_API_KEY"
    /\ data \in RecordSeqs(IntTemps) \cup RecordSeqs(FloatTemps)
    /\ params = NoParams
    /\ fetched = <<>>
    /\ fetchTime = 0
    /\ prev = <<>>
    /\ prevTime = 0
    /\ prevParams = NoParams
    /\ fetches = 0
    /\ result = [exc |-> "not called", value |-> <<>>]
    /\ fresh = FALSE
    /\ files = [p \in Paths |-> NoFile]
    /\ last = [op |-> "new", exc |-> "none"]
    /\ pc = "session"
    /\ out = <<>>
    /\ log = <<>>

NextAnalyze ==
    \/ Analyze
    \/ \E io_ok \in BOOLEAN : Visualize(DefaultPath, io_ok)

SpecAnalyze == InitAnalyze /\ [][NextAnalyze]_vars

\* ================================================================= claims
Hours(d, k) == to_datetime(d[k].datetime)

\* The sum of the generator's temperature formula over the indices 0..n-1.
RECURSIVE FormulaSum(_)
FormulaSum(n) ==
    IF n = 0 THEN 0
    ELSE FormulaSum(n - 1) + (20 + (((n - 1) % 8) - 4) + ((n - 1) % 3))

\* C1: whatever the city and the api key, fetch_weather_forecast returns exactly
\* 40 records; record i is stamped now + 3*i hours, so each timestamp is exactly
\* 3 hours after the one before it.
C1_FetchReturns40Every3Hours ==
    last.op = "fetch" =>
        /\ Len(fetched) = 40
        /\ \A i \in 0..39 : Hours(fetched, i + 1) = fetchTime + 3 * i
        /\ \A i \in 0..38 : Hours(fetched, i + 2) - Hours(fetched, i + 1) = 3

\* C1 witness: a fetch for Paris with the key k1, made at clock reading 1.
C1_Witness ==
    /\ last.op = "fetch"
    /\ params.q = "Paris"
    /\ params.appid = "k1"
    /\ fetchTime = 1

\* C2: record i of the synthetic generator has temperature
\* 20 + ((i mod 8) - 4) + (i mod 3), humidity 60 + (i mod 20) and wind speed
\* 5 + (i mod 10), for every i in 0..39.
C2_GeneratorFormula ==
    last.op = "fetch" =>
        \A i \in 0..39 :
            /\ fetched[i + 1].temperature = PyInt(20 + ((i % 8) - 4) + (i % 3))
            /\ fetched[i + 1].humidity = PyInt(60 + (i % 20))
            /\ fetched[i + 1].wind_speed = PyInt(5 + (i % 10))

\* C2 witness: a fetch has returned its 40 records.
C2_Witness ==
    /\ last.op = "fetch"
    /\ Len(fetched) = 40
    /\ fetched[40].wind_speed = PyInt(14)

\* C3 as stated: on the fetched 40-record set analyze_temperature_trends returns
\* min = 17, max = 25 and the mean of the 40 formula temperatures.
C3_Original ==
    (last.op = "analyze" /\ fetches > 0) =>
        /\ result.exc = "none"
        /\ Len(result.value) = 3
        /\ PyEq(result.value[1], PyInt(17))
        /\ PyEq(result.value[2], PyInt(25))
        /\ result.value[3].ty = "float"
        /\ 2 * Abs(result.value[3].v * 40 - FormulaSum(40) * Scale) <= 40

\* C3 amended: on the fetched 40-record set analyze_temperature_trends returns
\* min = 16, max = 25 and, as the mean, the float nearest to the sum of the 40
\* formula temperatures (819) divided by 40.
C3_MinIs16MaxIs25 ==
    (last.op = "analyze" /\ fetches > 0) =>
        /\ result.exc = "none"
        /\ Len(result.value) = 3
        /\ result.value[1] = PyInt(16)
        /\ result.value[2] = PyInt(25)
        /\ FormulaSum(40) = 819
        /\ result.value[3].ty = "float"
        /\ 2 * Abs(result.value[3].v * 40 - 819 * Scale) <= 40

\* C3 witness: analyze_temperature_trends has returned on a fetched set.
C3_Witness ==
    /\ last.op = "analyze"
    /\ fetches > 0
    /\ Len(data) = 40
    /\ result.exc = "none"

C4_OnIntTemperatures ==
    (last.op = "analyze" /\ Len(data) >= 1
        /\ \A k \in 1..Len(data) : data[k].temperature.ty = "int") =>
        /\ result.exc = "none"
        /\ PyLe(result.value[1], result.value[3])
        /\ PyLe(result.value[3], result.value[2])

\* C5 as stated: analyze_temperature_trends on zero records fails with a
\* division-by-zero error and returns no triple.
C5_Original ==
    (last.op = "analyze" /\ Len(data) = 0) =>
        /\ result.exc = "ZeroDivisionError"
        /\ result.value = <<>>

\* C5 amended: analyze_temperature_trends on zero records fails with the
\* ValueError that min() raises on an empty sequence, before the mean is
\* computed, and returns no triple.
C5_EmptyRaisesValueError ==
    (last.op = "analyze" /\ Len(data) = 0) =>
        /\ result.exc = "ValueError"
        /\ last.exc = "ValueError"
        /\ result.value = <<>>

\* C5 witness: analyze_temperature_trends was called on a freshly constructed
\* analyzer, before any fetch.
C5_Witness ==
    /\ last.op = "analyze"
    /\ fetches = 0
    /\ data = <<>>
    /\ result.exc # "none"

\* C6: once fetch_weather_forecast has been called on an analyzer, whatever calls
\* are interleaved, the analyzer holds exactly the 40 records the most recent
\* fetch returned, never more.
C6_HoldsLatestFetchOnly ==
    fetches > 0 =>
        /\ Len(data) = 40
        /\ data = fetched
        /\ \A i \in 0..39 : Hours(data, i + 1) = fetchTime + 3 * i

\* C6 witness: two or more fetches on one analyzer at different clock readings,
\* then an analyze call, with a visualization written along the way.
C6_Witness ==
    /\ fetches = 2
    /\ fetchTime # prevTime
    /\ fresh
    /\ files[DefaultPath].exists

\* C7: two fetch_weather_forecast calls return the same temperatures, humidities
\* and wind speeds whatever their cities and api keys, and timestamps that differ
\* by the difference of the two clock readings; at the same clock reading the
\* two returned sequences are identical.
C7_FetchDependsOnClockOnly ==
    (Len(fetched) > 0 /\ Len(prev) > 0) =>
        /\ Len(fetched) = Len(prev)
        /\ \A k \in 1..Len(fetched) :
              /\ fetched[k].temperature = prev[k].temperature
              /\ fetched[k].humidity = prev[k].humidity
              /\ fetched[k].wind_speed = prev[k].wind_speed
              /\ Hours(fetched, k) - Hours(prev, k) = fetchTime - prevTime
        /\ (fetchTime = prevTime => fetched = prev)

\* C7 witness: two fetches at the same clock reading with different cities and
\* different api keys.
C7_Witness ==
    /\ Len(fetched) > 0
    /\ Len(prev) > 0
    /\ fetchTime = prevTime
    /\ params.q # prevParams.q
    /\ params.appid # prevParams.appid

\* C8: on a sequence of exactly one record, with temperature t,
\* analyze_temperature_trends returns min = max = mean = t.
C8_SingleRecord ==
    (last.op = "analyze" /\ Len(data) = 1) =>
        /\ result.exc = "none"
        /\ Len(result.value) = 3
        /\ \A k \in 1..3 : PyEq(result.value[k], data[1].temperature)

\* C8 witness: analyze_temperature_trends has run on one record whose
\* temperature is a float with a fractional part.
C8_Witness ==
    /\ last.op = "analyze"
    /\ Len(data) = 1
    /\ data[1].temperature.ty = "float"
    /\ data[1].temperature.v % Scale # 0

Pipeline == <<"fetch", "analyze", "report", "render", "confirm">>
Confirmation == Line("Visualization saved as 'weather_analysis.png'")

\* C9: main starts its stages in the order fetch, analyze, report, render,
\* confirm; a stage that raises is the last one started and ends the run; render
\* is started only after analyze returned a triple; the confirmation line is
\* printed only after render wrote the file.
C9_MainStagesInOrder ==
    /\ Len(log) <= Len(Pipeline)
    /\ \A k \in 1..Len(log) : log[k].stage = Pipeline[k]
    /\ \A k \in 1..Len(log) : log[k].exc # "none" => (k = Len(log) /\ pc = "failed")
    /\ pc = "failed" => (Len(log) > 0 /\ log[Len(log)].exc # "none")
    /\ (\E k \in 1..Len(log) : log[k].stage = "render") =>
          (result.exc = "none" /\ Len(result.value) = 3)
    /\ (\E k \in 1..Len(out) : out[k] = Confirmation) =>
          /\ \E k \in 1..Len(log) : log[k] = Stage("render", "none")
          /\ files[DefaultPath] = visualize_data(data, TRUE).value
          /\ pc = "done"

\* C9 witness: a run of main in which writing the image failed.
C9_Witness ==
    /\ pc = "failed"
    /\ Len(log) = 4
    /\ log[4] = Stage("render", "OSError")
    /\ ~ \E k \in 1..Len(out) : out[k] = Confirmation

\* C10: analyze_temperature_trends and visualize_data leave self.data as it is,
\* whether they return or raise; only a fetch (or constructing the analyzer)
\* changes it; and calling analyze_temperature_trends again with no fetch in
\* between returns the same result, whatever visualize_data calls came between.
C10_DataChangedOnlyByFetch ==
    [][ /\ (last'.op \in {"analyze", "visualize"} => data' = data)
        /\ (data' # data => last'.op \in {"fetch", "new"})
        /\ ((last'.op = "analyze" /\ fresh) => result' = result) ]_vars

\* C10 witness: after a fetch and an analyze call, a visualize_data call that
\* failed to write its file.
C10_Witness ==
    /\ last.op = "visualize"
    /\ last.exc = "OSError"
    /\ fresh
    /\ fetches > 0

====
